---- MODULE Spec2Model ----
(***************************************************************************)
(* Model of src/travel_bot.py: the EnhancedTravelPlannerAI component calls *)
(* (insights, itinerary, budget, packing), the process-wide memo cache,    *)
(* the itinerary date normalisation and the four-way fan-out/fan-in of     *)
(* generate_all_parallel.                                                  *)
(***************************************************************************)
EXTENDS Integers, Sequences, FiniteSets, TLC

VARIABLES
    cache,   \* EnhancedTravelPlannerAI._cache: cache key -> parsed JSON value
    thr,     \* one record per thread running a component call
    hist,    \* completed component calls, in order of completion
    agg,     \* the generate_all_parallel frame: results, futures, position
    itin,    \* one create_daily_itinerary evaluation: inputs and return value
    form     \* main: the sidebar form as last submitted and what became of it

vars == <<cache, thr, hist, agg, itin, form>>

(***************************************************************************)
(* Python values.  Every value is a record tagged with its type in t, so   *)
(* that values of different Python types compare unequal.                  *)
(***************************************************************************)
PyNone == [t |-> "None"]

EmptyDict == [t |-> "dict", body |-> "{}"]

EmptyList == [t |-> "list", items |-> <<>>]

PyList(items) == [t |-> "list", items |-> items]

\* A JSON object the model answered with, identified by its content.
JsonObj(name) == [t |-> "dict", body |-> name]

\* {'error': str(e)}
ErrorDict(msg) == [t |-> "dict", body |-> "error", error |-> msg]

\* The outcome of evaluating a Python expression or call: a value or a raise.
Return(v) == [raised |-> FALSE, val |-> v]

Raise(exc) == [raised |-> TRUE, exc |-> exc]

(***************************************************************************)
(* The external model call and json.loads of its content.                  *)
(* A response is the collaborator's answer to one completion request:      *)
(*   kind "error"  client.chat.completions.create raised                   *)
(*   kind "text"   it returned content; json says whether content parses,  *)
(*                 val is the parsed value.                                *)
(***************************************************************************)
ApiError == [kind |-> "error"]

BadJson == [kind |-> "text", json |-> FALSE]

Json(v) == [kind |-> "text", json |-> TRUE, val |-> v]

\* response = client.chat.completions.create(...);
\* json.loads(response.choices[0].message.content)
json_loads(resp) ==
    IF resp.kind = "error" THEN Raise("APIError")
    ELSE IF ~resp.json THEN Raise("JSONDecodeError")
    ELSE Return(resp.val)

(***************************************************************************)
(* Calendar arithmetic of datetime (proleptic Gregorian ordinals).         *)
(* Date strings are sequences of one-character strings.                    *)
(***************************************************************************)
DigitChars == <<"0", "1", "2", "3", "4", "5", "6", "7", "8", "9">>

IsDigit(c) == \E d \in 1..10 : DigitChars[d] = c

DigitVal(c) == (CHOOSE d \in 1..10 : DigitChars[d] = c) - 1

IsLeap(y) == y % 4 = 0 /\ (y % 100 # 0 \/ y % 400 = 0)

DaysInMonth(y, m) ==
    IF m = 2 THEN (IF IsLeap(y) THEN 29 ELSE 28)
    ELSE IF m \in {4, 6, 9, 11} THEN 30 ELSE 31

DaysBeforeYear(y) ==
    LET p == y - 1 IN p * 365 + (p \div 4) - (p \div 100) + (p \div 400)

RECURSIVE DaysBeforeMonth(_, _)
DaysBeforeMonth(y, m) ==
    IF m = 1 THEN 0 ELSE DaysBeforeMonth(y, m - 1) + DaysInMonth(y, m - 1)

\* date.toordinal(): 0001-01-01 is day 1
ymd2ord(y, m, d) == DaysBeforeYear(y) + DaysBeforeMonth(y, m) + d

\* date.fromordinal(): the 400/100/4/1-year cycle decomposition
ord2ymd(ord) ==
    LET n0   == ord - 1
        n400 == n0 \div 146097
        r400 == n0 % 146097
        n100 == r400 \div 36524
        r100 == r400 % 36524
        n4   == r100 \div 1461
        r4   == r100 % 1461
        n1   == r4 \div 365
        n    == r4 % 365
        year == n400 * 400 + 1 + n100 * 100 + n4 * 4 + n1
        leap == n1 = 3 /\ (n4 # 24 \/ n100 = 3)
        m0   == (n + 50) \div 32
        p0   == DaysBeforeMonth(IF leap THEN 4 ELSE 1, m0)
        month == IF p0 > n THEN m0 - 1 ELSE m0
        prec == IF p0 > n
                THEN p0 - DaysInMonth(IF leap THEN 4 ELSE 1, m0 - 1)
                ELSE p0
    IN  IF n1 = 4 \/ n100 = 4
        THEN [y |-> year - 1, m |-> 12, d |-> 31]
        ELSE [y |-> year, m |-> month, d |-> n - prec + 1]

\* date.max.toordinal(), 9999-12-31
MaxOrdinal == ymd2ord(9999, 12, 31)

\* datetime.fromisoformat(s) for a ten-character string: YYYY-MM-DD with
\* year >= 1, month 1..12 and a day of that month; anything else raises.
fromisoformat(s) ==
    IF /\ Len(s) = 10
       /\ \A i \in {1, 2, 3, 4, 6, 7, 9, 10} : IsDigit(s[i])
       /\ s[5] = "-" /\ s[8] = "-"
    THEN LET y == DigitVal(s[1]) * 1000 + DigitVal(s[2]) * 100
                  + DigitVal(s[3]) * 10 + DigitVal(s[4])
             m == DigitVal(s[6]) * 10 + DigitVal(s[7])
             d == DigitVal(s[9]) * 10 + DigitVal(s[10])
         IN  IF y >= 1 /\ m \in 1..12 /\ d >= 1 /\ d <= DaysInMonth(y, m)
             THEN Return(ymd2ord(y, m, d))
             ELSE Raise("ValueError")
    ELSE Raise("ValueError")

\* dt + timedelta(days=i)
AddDays(ord, i) ==
    IF ord + i >= 1 /\ ord + i <= MaxOrdinal
    THEN Return(ord + i) ELSE Raise("OverflowError")

Digit(n) == DigitChars[(n % 10) + 1]

\* day_date.strftime('%Y-%m-%d') for a four-digit year
strftime_ymd(ord) ==
    LET c == ord2ymd(ord)
    IN  << Digit(c.y \div 1000), Digit(c.y \div 100), Digit(c.y \div 10),
           Digit(c.y), "-", Digit(c.m \div 10), Digit(c.m), "-",
           Digit(c.d \div 10), Digit(c.d) >>

WeekdayNames ==
    <<"Monday", "Tuesday", "Wednesday", "Thursday", "Friday", "Saturday",
      "Sunday">>

\* day_date.strftime('%A'): weekday() is (toordinal() + 6) % 7, Monday = 0
strftime_A(ord) == WeekdayNames[((ord + 6) % 7) + 1]

(***************************************************************************)
(* create_daily_itinerary (lines 119-225).                                 *)
(***************************************************************************)
\* Except with the handler returning {'error': str(e)} in place of the default.
Except_errorDict(outcome, default) ==
    IF outcome.raised THEN Return(ErrorDict(outcome.exc)) ELSE outcome

\* A handler that lets the exception through to the caller.
Except_reraise(outcome, default) == outcome

\* try: ... except Exception as e: logger.error(...); return <default>
Except(outcome, default) ==
    IF outcome.raised THEN Return(default) ELSE outcome

\* result.get(k, default) on a parsed JSON object
DictGet(d, k, default) == IF k \in d.keys THEN d[k] ELSE default

\* SetDates with the position taken from the entry's own 'day' number.
SetDates_trustDayField(day, start_date, i) ==
    LET p == fromisoformat(start_date)
    IN  IF p.raised THEN p
        ELSE IF day.t # "dict" THEN Raise("TypeError")
        ELSE LET a == AddDays(p.val, day.day - 1)
             IN  IF a.raised THEN a
                 ELSE Return([day EXCEPT !.date = strftime_ymd(a.val),
                                         !.day_of_week = strftime_A(a.val)])

\* One pass of the loop body for the entry `day` at zero-based position i:
\*   day_date = datetime.fromisoformat(start_date) + timedelta(days=i)
\*   day['date'] = day_date.strftime('%Y-%m-%d')
\*   day['day_of_week'] = day_date.strftime('%A')
SetDates(day, start_date, i) ==
    LET p == fromisoformat(start_date)
    IN  IF p.raised THEN p
        ELSE LET a == AddDays(p.val, i)
             IN  IF a.raised THEN a
                 ELSE IF day.t # "dict" THEN Raise("TypeError")
                 ELSE Return([day EXCEPT !.date = strftime_ymd(a.val),
                                         !.day_of_week = strftime_A(a.val)])

\* for i, day in enumerate(itinerary): ...   from position i on; the first
\* entry that raises ends the loop with that exception.
RECURSIVE NormalizeFrom(_, _, _)
NormalizeFrom(items, start_date, i) ==
    IF i >= Len(items) THEN Return(items)
    ELSE LET r == SetDates(items[i + 1], start_date, i)
         IN  IF r.raised THEN r
             ELSE NormalizeFrom([items EXCEPT ![i + 1] = r.val],
                                start_date, i + 1)

\* A JSON string, by its characters.
PyStr(chars) == [t |-> "str", chars |-> chars]

\* A key of a JSON object or a character of a string, as the loop sees it:
\* a str, on which day['date'] = ... raises TypeError.
StrItem == [t |-> "str"]

\* enumerate(itinerary): the items of a list, the keys of a dict, the
\* characters of a str; any other JSON value is not iterable.
enumerate(v) ==
    CASE v.t = "list" -> Return(v.items)
      [] v.t = "dict" -> Return(IF v.body = "{}" THEN << >> ELSE <<StrItem>>)
      [] v.t = "str"  -> Return([i \in 1..Len(v.chars) |-> StrItem])
      [] OTHER        -> Raise("TypeError")

\* The try block of create_daily_itinerary, lines 202-222.  The loop changes
\* the entries in place and the value under the key is returned itself.
create_daily_itinerary_try(resp, start_date) ==
    LET result == json_loads(resp)
    IN  IF result.raised THEN result
        ELSE LET itinerary == DictGet(result.val, "itinerary",
                                  DictGet(result.val, "days", EmptyList))
                 items == enumerate(itinerary)
             IN  IF items.raised THEN items
                 ELSE LET n == NormalizeFrom(items.val, start_date, 0)
                      IN  IF n.raised THEN n
                          ELSE IF itinerary.t = "list"
                          THEN Return(PyList(n.val))
                          ELSE Return(itinerary)

create_daily_itinerary(resp, start_date) ==
    Except(create_daily_itinerary_try(resp, start_date), EmptyList)

(***************************************************************************)
(* The memo cache and the four component calls.                            *)
(***************************************************************************)
RECURSIVE JoinUnderscore(_)
\* '_'.join(map(str, args))
JoinUnderscore(args) ==
    IF Len(args) = 0 THEN ""
    ELSE IF Len(args) = 1 THEN args[1]
    ELSE args[1] \o "_" \o JoinUnderscore(Tail(args))

\* hashlib.md5(key.encode()).hexdigest(): a digest, taken to be free of
\* collisions on the keys of the model.
md5(text) == [md5 |-> text]

\* _get_cache_key(func_name, *args)
get_cache_key(func_name, args) ==
    md5(func_name \o "_" \o JoinUnderscore(args))

RECURSIVE JoinQuoted(_)
JoinQuoted(xs) ==
    IF Len(xs) = 0 THEN ""
    ELSE IF Len(xs) = 1 THEN "'" \o xs[1] \o "'"
    ELSE "'" \o xs[1] \o "', " \o JoinQuoted(Tail(xs))

\* str(activities) of a list of strings
StrOfList(xs) == "[" \o JoinQuoted(xs) \o "]"

\* The operations that go through the cache, and the key each computes
\* (lines 59 and 231).
Memoized(op) == op \in {"insights", "packing"}

CacheKeyOf(op, args) ==
    IF op = "insights" THEN get_cache_key("insights", <<args.destination>>)
    ELSE get_cache_key("packing",
             <<args.destination, args.season, StrOfList(args.activities)>>)

\* if cache_key in _cache: return _cache[cache_key]
CacheHit(c, op, args) == Memoized(op) /\ CacheKeyOf(op, args) \in DOMAIN c

\* CacheStore on a cache that keeps one entry, the newest.
CacheStore_singleEntry(c, k, v) == [x \in {k} |-> v]

\* _cache[cache_key] = result
CacheStore(c, k, v) ==
    [x \in (DOMAIN c) \cup {k} |-> IF x = k THEN v ELSE c[x]]

\* The try block of a component call from the model call on, up to its
\* return statement.
TryBlock(op, args, resp) ==
    IF op = "itinerary" THEN create_daily_itinerary_try(resp, args.start_date)
    ELSE json_loads(resp)

\* What each except handler returns: [] for the itinerary, {} for the rest.
DefaultOf(op) == IF op = "itinerary" THEN EmptyList ELSE EmptyDict

\* The outcome of a component call whose model call was answered by resp.
ComponentOutcome(op, args, resp) ==
    Except(TryBlock(op, args, resp), DefaultOf(op))

\* CacheAfter with the write left out.
CacheAfter_noStore(c, op, args, resp) == c

\* CacheAfter with the write moved after the handler: whatever the call
\* returns is stored.
CacheAfter_storeAlways(c, op, args, resp) ==
    IF Memoized(op)
    THEN CacheStore(c, CacheKeyOf(op, args),
                    Except(TryBlock(op, args, resp), DefaultOf(op)).val)
    ELSE c

\* The cache after that call: written only after json.loads returned, and
\* only by the memoized operations (lines 112 and 264).
CacheAfter(c, op, args, resp) ==
    IF Memoized(op) /\ ~TryBlock(op, args, resp).raised
    THEN CacheStore(c, CacheKeyOf(op, args), TryBlock(op, args, resp).val)
    ELSE c

(***************************************************************************)
(* Inputs of the itinerary evaluation.                                     *)
(***************************************************************************)
MaxLen == 3

\* Start dates a caller can pass: ordinary days, month and year ends, leap
\* and non-leap Februaries, the last days of the calendar, and two strings
\* that are no ISO date.
StartDates ==
    { <<"2","0","2","4","-","0","6","-","0","1">>,
      <<"2","0","2","4","-","0","2","-","2","8">>,
      <<"2","0","2","3","-","0","2","-","2","8">>,
      <<"2","1","0","0","-","0","2","-","2","7">>,
      <<"2","0","2","4","-","1","2","-","3","0">>,
      <<"9","9","9","9","-","1","2","-","3","0">>,
      <<"2","0","2","4","-","0","2","-","3","0">>,
      <<"2","0","2","4","/","0","6","/","0","1">> }

\* A day entry as the model wrote it: its own 'day' number and 'date' text
\* (<<>> when it gave none) and no 'day_of_week'.
DayEntry(day, date) ==
    [t |-> "dict", day |-> day, date |-> date, day_of_week |-> ""]

\* An array element that is no JSON object (a string).
NotAnObject == [t |-> "str"]

Entries ==
    { DayEntry(1, <<>>),
      DayEntry(7, <<"2","0","2","0","-","0","1","-","0","1">>),
      NotAnObject }

RECURSIVE SeqsUpTo(_, _)
SeqsUpTo(S, n) ==
    IF n = 0 THEN { <<>> }
    ELSE LET shorter == SeqsUpTo(S, n - 1)
         IN  shorter \cup { Append(q, e) : q \in shorter, e \in S }

\* The parsed JSON object of an itinerary response: which of the keys
\* 'itinerary' and 'days' it has, and their values.
Plan(keys, itinerary, days) ==
    [t |-> "dict", body |-> "plan", keys |-> keys,
     itinerary |-> itinerary, days |-> days]

PyInt == [t |-> "int"]

\* Values under the key that are no array: null, a number, objects and
\* strings, empty and not.
NoArrays ==
    { PyNone, PyInt, EmptyDict, JsonObj("A"), PyStr(<< >>), PyStr(<<"x">>) }

ItineraryResponses ==
    { ApiError, BadJson, Json(Plan({}, PyNone, PyNone)) }
    \cup { Json(Plan({"itinerary"}, v, PyNone)) : v \in NoArrays }
    \cup { Json(Plan({"days"}, PyNone, v)) : v \in NoArrays }
    \cup { Json(Plan({"itinerary"}, PyList(q), PyNone)) : q \in SeqsUpTo(Entries, MaxLen) }
    \cup { Json(Plan({"days"}, PyNone, PyList(q))) : q \in SeqsUpTo(Entries, MaxLen) }
    \cup { Json(Plan({"itinerary", "days"}, PyList(q), PyInt)) : q \in SeqsUpTo(Entries, MaxLen) }

(***************************************************************************)
(* One evaluation of create_daily_itinerary on drawn inputs.               *)
(***************************************************************************)
ItinIdle == [pc |-> "idle"]

ItinCalled(start_date, resp) ==
    [pc |-> "call", start_date |-> start_date, resp |-> resp]

NoThreads == << >>

NoAgg == [pc |-> "none"]

NoForm == [pc |-> "none"]

ItinInit ==
    /\ cache = << >>
    /\ thr = NoThreads
    /\ hist = << >>
    /\ agg = NoAgg
    /\ \E s \in StartDates, r \in ItineraryResponses : itin = ItinCalled(s, r)
    /\ form = NoForm

ItinReturn ==
    /\ itin.pc = "call"
    /\ itin' = [pc |-> "ret", start_date |-> itin.start_date,
                resp |-> itin.resp,
                out |-> create_daily_itinerary(itin.resp, itin.start_date)]
    /\ UNCHANGED <<cache, thr, hist, agg, form>>

ItinNext == ItinReturn

ItinSpec == ItinInit /\ [][ItinNext]_vars

(***************************************************************************)
(* Direct calls of the component operations by caller threads sharing the  *)
(* cache.  A call is two steps when it reaches the model: the cache check  *)
(* with the request going out, and the answer with everything after it.    *)
(***************************************************************************)
MaxCalls == 3

Ops == {"insights", "itinerary", "budget", "packing"}

Destinations == {"Rome", "Paris"}

TripLengths == {3, 5}

June1 == <<"2","0","2","4","-","0","6","-","0","1">>

ArgsOf(op) ==
    CASE op = "insights" ->
           { [destination |-> d] : d \in Destinations }
      [] op = "packing" ->
           { [destination |-> "Rome", days |-> n, season |-> "summer",
              activities |-> <<"Culture">>] : n \in TripLengths }
      [] op = "itinerary" ->
           { [destination |-> "Rome", origin |-> "New York", days |-> 3,
              preferences |-> <<"Culture">>, budget_level |-> "mid-range",
              start_date |-> June1] }
      [] op = "budget" ->
           { [destination |-> "Rome", days |-> 3, travelers |-> 2,
              budget_level |-> "mid-range"] }

\* What the model may answer to each kind of request.
ResponsesOf(op) ==
    CASE op = "insights" ->
           { ApiError, BadJson, Json(JsonObj("A")), Json(JsonObj("B")) }
      [] op = "packing" ->
           { ApiError, Json(JsonObj("A")), Json(JsonObj("B")) }
      [] op = "itinerary" ->
           { ApiError,
             Json(Plan({"itinerary"},
                       PyList(<<DayEntry(1, <<>>), DayEntry(1, <<>>)>>),
                       PyNone)) }
      [] op = "budget" ->
           { BadJson, Json(JsonObj("A")) }

Idle == [pc |-> "idle"]

Calling(op, args) == [pc |-> "calling", op |-> op, args |-> args]

InFlight == { t \in DOMAIN thr : thr[t].pc = "calling" }

\* A completed call: who made it, what was asked, whether it went to the
\* model and whether the model call failed, and its outcome.
Completed(t, op, args, invoked, failed, ret) ==
    [caller |-> t, op |-> op, args |-> args, invoked |-> invoked,
     failed |-> failed, ret |-> ret]

\* Lines 61-62 and 233-234: the key is in the cache, the call returns it.
CallCached(t, op, args) ==
    /\ thr[t].pc = "idle"
    /\ Len(hist) + Cardinality(InFlight) < MaxCalls
    /\ CacheHit(cache, op, args)
    /\ hist' = Append(hist, Completed(t, op, args, FALSE, FALSE,
                                      Return(cache[CacheKeyOf(op, args)])))
    /\ UNCHANGED <<cache, thr, agg, itin, form>>

\* The key is not in the cache (or the operation has none): the request
\* goes to the model.
CallModel(t, op, args) ==
    /\ thr[t].pc = "idle"
    /\ Len(hist) + Cardinality(InFlight) < MaxCalls
    /\ ~CacheHit(cache, op, args)
    /\ thr' = [thr EXCEPT ![t] = Calling(op, args)]
    /\ UNCHANGED <<cache, hist, agg, itin, form>>

\* The model call ends with resp; the rest of the try block or the except
\* handler runs and the call returns.
ModelAnswers(t, resp) ==
    /\ thr[t].pc = "calling"
    /\ resp \in ResponsesOf(thr[t].op)
    /\ cache' = CacheAfter(cache, thr[t].op, thr[t].args, resp)
    /\ hist' = Append(hist,
                 Completed(t, thr[t].op, thr[t].args, TRUE,
                           json_loads(resp).raised,
                           ComponentOutcome(thr[t].op, thr[t].args, resp)))
    /\ thr' = [thr EXCEPT ![t] = Idle]
    /\ UNCHANGED <<agg, itin, form>>

CallerNext ==
    \/ \E t \in DOMAIN thr : \E op \in Ops : \E args \in ArgsOf(op) :
          CallCached(t, op, args)
    \/ \E t \in DOMAIN thr : \E op \in Ops : \E args \in ArgsOf(op) :
          CallModel(t, op, args)
    \/ \E t \in DOMAIN thr : \E resp \in UNION { ResponsesOf(op) : op \in Ops } :
          ModelAnswers(t, resp)

CallersInit(callers) ==
    /\ cache = << >>
    /\ thr = [t \in callers |-> Idle]
    /\ hist = << >>
    /\ agg = NoAgg
    /\ itin = ItinIdle
    /\ form = NoForm

\* One caller: calls follow one another.
SeqSpec == CallersInit({"c1"}) /\ [][CallerNext]_vars

\* Two callers running at once, as two sessions of the application do.
CacheSpec == CallersInit({"c1", "c2"}) /\ [][CallerNext]_vars

(***************************************************************************)
(* generate_all_parallel (lines 330-388): four tasks on a pool of four     *)
(* workers, collected with as_completed.                                   *)
(***************************************************************************)
MaxRuns == 2

\* The futures list, in submission order (lines 374-379).
Tasks == <<"insights", "itinerary", "budget", "packing">>

TaskSet == { Tasks[i] : i \in 1..Len(Tasks) }

Fields == TaskSet \cup {"errors"}

\* The arguments the presentation layer passes for one trip.
TripInputs ==
    { [origin |-> "New York", destination |-> d, days |-> 3, travelers |-> 2,
       preferences |-> <<"Culture">>, budget_level |-> "mid-range",
       season |-> "summer", start_date |-> June1] : d \in Destinations }

\* The arguments each run_* closure passes on (lines 345, 351, 359, 367).
TaskArgs(task, in) ==
    CASE task = "insights" -> [destination |-> in.destination]
      [] task = "itinerary" ->
           [destination |-> in.destination, origin |-> in.origin,
            days |-> in.days, preferences |-> in.preferences,
            budget_level |-> in.budget_level, start_date |-> in.start_date]
      [] task = "budget" ->
           [destination |-> in.destination, days |-> in.days,
            travelers |-> in.travelers, budget_level |-> in.budget_level]
      [] task = "packing" ->
           [destination |-> in.destination, days |-> in.days,
            season |-> in.season, activities |-> in.preferences]

\* What the model may answer to each task's request.
TaskResponses(task) ==
    CASE task = "insights" -> { ApiError, BadJson, Json(JsonObj("A")) }
      [] task = "packing" -> { ApiError, Json(JsonObj("B")) }
      [] task = "itinerary" ->
           { ApiError,
             Json(Plan({"days"},  PyNone,
                       PyList(<<DayEntry(1, <<>>), DayEntry(1, <<>>)>>))) }
      [] task = "budget" -> { BadJson, Json(JsonObj("C")) }

\* InitialResults without the 'errors' key.
InitialResults_noErrorsKey == [f \in TaskSet |-> PyNone]

\* results = {'insights': None, ..., 'errors': []}
InitialResults ==
    [f \in Fields |-> IF f = "errors" THEN << >> ELSE PyNone]

\* RunTask with run_budget carrying the tag of the closure above it.
RunTask_wrongTag(tag, outcome) ==
    LET key == IF tag = "budget" THEN "itinerary" ELSE tag
    IN  IF outcome.raised
        THEN Return([key |-> key, value |-> ErrorDict(outcome.exc)])
        ELSE Return([key |-> key, value |-> outcome.val])

\* run_insights .. run_packing: the component call's outcome tagged with the
\* task's name; an exception becomes (tag, {'error': str(e)}).
RunTask(tag, outcome) ==
    IF outcome.raised
    THEN Return([key |-> tag, value |-> ErrorDict(outcome.exc)])
    ELSE Return([key |-> tag, value |-> outcome.val])

\* The body of the as_completed loop for one future (lines 382-386).
StoreResult(results, fut) ==
    IF fut.raised
    THEN Return([results EXCEPT !["errors"] = Append(@, fut.exc)])
    ELSE Return([results EXCEPT ![fut.val.key] = fut.val.value])

Queued(op, args) == [pc |-> "queued", op |-> op, args |-> args]

\* Done with a task whose model call failed put back on the queue.
Done_retryOnFailure(op, args, invoked, resp, failed, fut) ==
    IF failed THEN Queued(op, args)
    ELSE [pc |-> "done", op |-> op, args |-> args, invoked |-> invoked,
          resp |-> resp, failed |-> failed, fut |-> fut]

\* A finished future: whether the task went to the model, the answer it
\* got (resp, when it did), whether that call failed, and the future's result.
Done(op, args, invoked, resp, failed, fut) ==
    [pc |-> "done", op |-> op, args |-> args, invoked |-> invoked,
     resp |-> resp, failed |-> failed, fut |-> fut]

NoResponse == [kind |-> "none"]

\* LoopDone with the loop left after the first future.
LoopDone_afterFirst == agg.pc = "collecting" /\ agg.collected # {}

\* LoopDone with the loop left as soon as a collected field is empty.
LoopDone_failFast ==
    /\ agg.pc = "collecting"
    /\ \/ agg.collected = TaskSet
       \/ \E t \in agg.collected : agg.results[t] \in {EmptyDict, EmptyList}

\* The as_completed loop ends when every future has been yielded.
LoopDone == agg.pc = "collecting" /\ agg.collected = TaskSet

\* ThreadPoolExecutor(max_workers=4)
max_workers == 4

\* A pool of one thread: a queued task starts only when no other is running.
PoolHasWorker_single ==
    Cardinality({ t \in TaskSet : thr[t].pc = "calling" }) < 1

\* The pool starts a queued task when fewer than max_workers of its threads
\* are busy.
PoolHasWorker ==
    Cardinality({ t \in TaskSet : thr[t].pc = "calling" }) < max_workers

\* The frame of one generate_all_parallel call: its arguments, results as
\* first built, and the bookkeeping of the run (futures submitted and
\* yielded, model calls issued per task, the task that finished first, the
\* tasks stored under each field).
Frame(in, run) ==
    [pc |-> "submitting", in |-> in, results |-> InitialResults,
     submitted |-> 0, collected |-> {}, first |-> "",
     stored |-> [f \in TaskSet |-> {}],
     calls |-> [t \in TaskSet |-> 0], runs |-> run]

\* generate_all_parallel is called: results is built, nothing submitted yet.
Begin(in) ==
    /\ agg.pc \in {"idle", "returned"}
    /\ agg.runs < MaxRuns
    /\ agg' = Frame(in, agg.runs + 1)
    /\ thr' = [t \in TaskSet |-> Idle]
    /\ UNCHANGED <<cache, hist, itin, form>>

\* executor.submit(run_<task>), one after the other; after the fourth the
\* main thread enters the as_completed loop.
Submit ==
    /\ agg.pc = "submitting"
    /\ LET k == agg.submitted + 1
       IN  /\ thr' = [thr EXCEPT ![Tasks[k]] =
                         Queued(Tasks[k], TaskArgs(Tasks[k], agg.in))]
           /\ agg' = [agg EXCEPT !.submitted = k,
                                 !.pc = IF k = Len(Tasks) THEN "collecting"
                                        ELSE "submitting"]
    /\ UNCHANGED <<cache, hist, itin, form>>

\* A worker runs its task up to the cache check and finds the key.
WorkerCached(t) ==
    /\ thr[t].pc = "queued"
    /\ PoolHasWorker
    /\ CacheHit(cache, thr[t].op, thr[t].args)
    /\ thr' = [thr EXCEPT ![t] =
                 Done(thr[t].op, thr[t].args, FALSE, NoResponse, FALSE,
                      RunTask(t, Return(cache[CacheKeyOf(thr[t].op,
                                                         thr[t].args)])))]
    /\ agg' = [agg EXCEPT !.first = IF @ = "" THEN t ELSE @]
    /\ UNCHANGED <<cache, hist, itin, form>>

\* A worker runs its task up to the model call and waits for the answer.
WorkerCallsModel(t) ==
    /\ thr[t].pc = "queued"
    /\ PoolHasWorker
    /\ ~CacheHit(cache, thr[t].op, thr[t].args)
    /\ thr' = [thr EXCEPT ![t] = Calling(thr[t].op, thr[t].args)]
    /\ agg' = [agg EXCEPT !.calls[t] = @ + 1]
    /\ UNCHANGED <<cache, hist, itin, form>>

\* The model call of task t ends with resp; the task runs to its end and
\* its future is finished.
WorkerAnswered(t, resp) ==
    /\ agg.pc \in {"submitting", "collecting"}
    /\ thr[t].pc = "calling"
    /\ resp \in TaskResponses(t)
    /\ cache' = CacheAfter(cache, thr[t].op, thr[t].args, resp)
    /\ thr' = [thr EXCEPT ![t] =
                 Done(thr[t].op, thr[t].args, TRUE, resp,
                      json_loads(resp).raised,
                      RunTask(t, ComponentOutcome(thr[t].op, thr[t].args,
                                                  resp)))]
    /\ agg' = [agg EXCEPT !.first = IF @ = "" THEN t ELSE @]
    /\ UNCHANGED <<hist, itin, form>>

\* as_completed yields a finished future not yet yielded; the loop body
\* stores its result.
Collect(t) ==
    /\ agg.pc = "collecting"
    /\ ~LoopDone
    /\ thr[t].pc = "done"
    /\ t \notin agg.collected
    /\ LET body == StoreResult(agg.results, thr[t].fut)
       IN  IF body.raised
           THEN agg' = [agg EXCEPT !.pc = "raised"]
           ELSE agg' = [agg EXCEPT
                          !.results = body.val,
                          !.collected = @ \cup {t},
                          !.stored = IF thr[t].fut.raised THEN @
                                     ELSE [@ EXCEPT ![thr[t].fut.val.key] =
                                                       @ \cup {t}]]
    /\ UNCHANGED <<cache, thr, hist, itin, form>>

\* The loop is over, the executor is shut down, return results.
ReturnResults ==
    /\ LoopDone
    /\ agg' = [agg EXCEPT !.pc = "returned"]
    /\ UNCHANGED <<cache, thr, hist, itin, form>>

Init ==
    /\ cache = << >>
    /\ thr = [t \in TaskSet |-> Idle]
    /\ hist = << >>
    /\ agg = [pc |-> "idle", runs |-> 0]
    /\ itin = ItinIdle
    /\ form = NoForm

Next ==
    \/ \E in \in TripInputs : Begin(in)
    \/ Submit
    \/ \E t \in TaskSet : WorkerCached(t)
    \/ \E t \in TaskSet : WorkerCallsModel(t)
    \/ \E t \in TaskSet : \E resp \in TaskResponses(t) : WorkerAnswered(t, resp)
    \/ \E t \in TaskSet : Collect(t)
    \/ ReturnResults

Spec == Init /\ [][Next]_vars

\* Scheduling: the main thread and the pool's workers keep running, and
\* every model call in flight ends, with an answer or an error.
Fairness ==
    /\ WF_vars(Submit)
    /\ \A t \in TaskSet : WF_vars(WorkerCached(t))
    /\ \A t \in TaskSet : WF_vars(WorkerCallsModel(t))
    /\ \A t \in TaskSet :
          WF_vars(\E resp \in TaskResponses(t) : WorkerAnswered(t, resp))
    /\ WF_vars(\E t \in TaskSet : Collect(t))
    /\ WF_vars(ReturnResults)

FairSpec == Spec /\ Fairness

(***************************************************************************)
(* main: the sidebar form and the block run when it is submitted.  Dates   *)
(* are datetime.date values, records of year, month and day.               *)
(***************************************************************************)
Date(y, m, d) == [y |-> y, m |-> m, d |-> d]

\* date.__lt__ with both sides swapped: a strict order, where the code has <=
date_le_strict(a, b) ==
    \/ a.y < b.y
    \/ a.y = b.y /\ a.m < b.m
    \/ a.y = b.y /\ a.m = b.m /\ a.d < b.d

\* date.__le__: dates compare as (year, month, day)
date_le(a, b) ==
    \/ a.y < b.y
    \/ a.y = b.y /\ a.m < b.m
    \/ a.y = b.y /\ a.m = b.m /\ a.d <= b.d

\* (a - b).days: the difference of the two ordinals
date_sub_days(a, b) == ymd2ord(a.y, a.m, a.d) - ymd2ord(b.y, b.m, b.d)

\* ["winter", "spring", "summer", "fall"][(start_date.month % 12) // 3]
SeasonOf(date) ==
    <<"winter", "spring", "summer", "fall">>[((date.m % 12) \div 3) + 1]

\* budget.lower() for the three options of the select box
Lower(budget) ==
    CASE budget = "Budget" -> "budget"
      [] budget = "Mid-Range" -> "mid-range"
      [] budget = "Luxury" -> "luxury"

\* prefs or ["Culture"]
PrefsOrDefault(prefs) == IF prefs = << >> THEN <<"Culture">> ELSE prefs

\* What the user may have in the form when pressing the button.
FormOrigins == {"", "New York"}

FormDestinations == {"", "Rome"}

FormStartDates == { Date(2024, 2, 27), Date(2024, 2, 29) }

FormEndDates == { Date(2024, 2, 27), Date(2024, 2, 29), Date(2024, 3, 1) }

FormInputs ==
    [origin : FormOrigins, destination : FormDestinations,
     start_date : FormStartDates, end_date : FormEndDates,
     travelers : {2}, budget : {"Mid-Range"}, prefs : {<<"Culture">>}]

\* The arguments main passes to generate_all_parallel (lines 564-567).
MainCall(f) ==
    [origin |-> f.origin, destination |-> f.destination,
     days |-> date_sub_days(f.end_date, f.start_date),
     travelers |-> f.travelers, preferences |-> PrefsOrDefault(f.prefs),
     budget_level |-> Lower(f.budget), season |-> SeasonOf(f.start_date),
     start_date |-> strftime_ymd(ymd2ord(f.start_date.y, f.start_date.m,
                                         f.start_date.d))]

FormShown == [pc |-> "form", trip_plan |-> PyNone]

\* The form is submitted with fields f: the two checks, and when both pass
\* the call of generate_all_parallel, whose frame is built here and whose
\* threads then run.
SubmitForm(f) ==
    /\ form.pc \in {"form", "rejected", "complete"}
    /\ agg.pc \in {"idle", "returned"}
    /\ IF f.origin = "" \/ f.destination = ""
       THEN /\ form' = [pc |-> "rejected", f |-> f, trip_plan |-> form.trip_plan,
                        error |-> "Please enter both origin and destination"]
            /\ UNCHANGED <<agg, thr>>
       ELSE IF date_le(f.end_date, f.start_date)
       THEN /\ form' = [pc |-> "rejected", f |-> f, trip_plan |-> form.trip_plan,
                        error |-> "End date must be after start date"]
            /\ UNCHANGED <<agg, thr>>
       ELSE /\ agg.runs < MaxRuns
            /\ form' = [pc |-> "generating", f |-> f,
                        trip_plan |-> form.trip_plan]
            /\ agg' = Frame(MainCall(f), agg.runs + 1)
            /\ thr' = [t \in TaskSet |-> Idle]
    /\ UNCHANGED <<cache, hist, itin>>

\* generate_all_parallel has returned: main keeps the plan in the session.
StorePlan ==
    /\ form.pc = "generating"
    /\ agg.pc = "returned"
    /\ form' = [pc |-> "complete", f |-> form.f,
                trip_plan |-> [days |-> agg.in.days,
                               start_date |-> agg.in.start_date,
                               insights |-> agg.results.insights,
                               itinerary |-> agg.results.itinerary,
                               budget |-> agg.results.budget,
                               packing |-> agg.results.packing]]
    /\ UNCHANGED <<cache, thr, hist, agg, itin>>

\* The application starts: empty cache, the form on screen, no plan yet.
MainInit ==
    /\ cache = << >>
    /\ thr = [t \in TaskSet |-> Idle]
    /\ hist = << >>
    /\ agg = [pc |-> "idle", runs |-> 0]
    /\ itin = ItinIdle
    /\ form = FormShown

MainNext ==
    \/ \E f \in FormInputs : SubmitForm(f)
    \/ Submit
    \/ \E t \in TaskSet : WorkerCached(t)
    \/ \E t \in TaskSet : WorkerCallsModel(t)
    \/ \E t \in TaskSet : \E resp \in TaskResponses(t) : WorkerAnswered(t, resp)
    \/ \E t \in TaskSet : Collect(t)
    \/ ReturnResults
    \/ StorePlan

MainSpec == MainInit /\ [][MainNext]_vars

(***************************************************************************)
(* Calendar facts used to state the properties, independent of the ordinal *)
(* arithmetic above: the day after a date, and Zeller's congruence.        *)
(***************************************************************************)
Num(s, from, to) ==
    LET RECURSIVE acc(_, _)
        acc(i, v) == IF i > to THEN v ELSE acc(i + 1, v * 10 + DigitVal(s[i]))
    IN  acc(from, 0)

CalDate(s) == [y |-> Num(s, 1, 4), m |-> Num(s, 6, 7), d |-> Num(s, 9, 10)]

MonthLength(y, m) ==
    LET feb == IF (y % 400 = 0) \/ (y % 4 = 0 /\ y % 100 # 0) THEN 29 ELSE 28
    IN  <<31, feb, 31, 30, 31, 30, 31, 31, 30, 31, 30, 31>>[m]

IsCalDateText(s) ==
    /\ Len(s) = 10
    /\ s[5] = "-" /\ s[8] = "-"
    /\ \A i \in {1, 2, 3, 4, 6, 7, 9, 10} : IsDigit(s[i])
    /\ CalDate(s).y >= 1
    /\ CalDate(s).m \in 1..12
    /\ CalDate(s).d \in 1..MonthLength(CalDate(s).y, CalDate(s).m)

NextDay(c) ==
    IF c.d < MonthLength(c.y, c.m) THEN [c EXCEPT !.d = c.d + 1]
    ELSE IF c.m < 12 THEN [y |-> c.y, m |-> c.m + 1, d |-> 1]
    ELSE [y |-> c.y + 1, m |-> 1, d |-> 1]

RECURSIVE DaysAfter(_, _)
DaysAfter(c, i) == IF i = 0 THEN c ELSE DaysAfter(NextDay(c), i - 1)

\* Zeller's congruence: 0 = Saturday, 1 = Sunday, ..., 6 = Friday
ZellerName(c) ==
    LET mm == IF c.m < 3 THEN c.m + 12 ELSE c.m
        yy == IF c.m < 3 THEN c.y - 1 ELSE c.y
        k  == yy % 100
        j  == yy \div 100
        h  == (c.d + ((13 * (mm + 1)) \div 5) + k + (k \div 4) + (j \div 4)
               + 5 * j) % 7
    IN  <<"Saturday", "Sunday", "Monday", "Tuesday", "Wednesday", "Thursday",
          "Friday">>[h + 1]

\* The day sequence the call obtained from the model: the value under
\* 'itinerary', else the one under 'days'; <<>> when there is none.
ObtainedValue(resp) ==
    IF resp.kind = "text" /\ resp.json
    THEN IF "itinerary" \in resp.val.keys THEN resp.val.itinerary
         ELSE IF "days" \in resp.val.keys THEN resp.val.days
         ELSE EmptyList
    ELSE PyNone

ObtainedDays(resp) ==
    IF ObtainedValue(resp).t = "list" THEN ObtainedValue(resp).items
    ELSE << >>

\* The entries of what create_daily_itinerary returned.
ReturnedEntries == IF itin.out.val.t = "list" THEN itin.out.val.items ELSE << >>

\* The inputs on which every assignment of the loop is defined.
ItinNormalizable ==
    /\ ObtainedValue(itin.resp).t = "list"
    /\ IsCalDateText(itin.start_date)
    /\ \A i \in 1..Len(ObtainedDays(itin.resp)) :
          /\ ObtainedDays(itin.resp)[i].t = "dict"
          /\ DaysAfter(CalDate(itin.start_date), i - 1).y <= 9999

\* C3: every entry create_daily_itinerary returns has, at zero-based position
\* i, date = start_date + i days written YYYY-MM-DD and day_of_week = the full
\* weekday name of that date, whatever 'date' and 'day' the model wrote; and
\* for a sequence of N day objects and a start date whose N days lie in the
\* calendar, all N entries are returned.
C3_DatesFollowPosition ==
    itin.pc = "ret" =>
        /\ ~itin.out.raised
        /\ \A i \in 1..Len(ReturnedEntries) :
              LET e == ReturnedEntries[i]
                  c == DaysAfter(CalDate(itin.start_date), i - 1)
              IN  /\ IsCalDateText(e.date)
                  /\ CalDate(e.date) = c
                  /\ e.day_of_week = ZellerName(c)
        /\ ItinNormalizable =>
              /\ itin.out.val.t = "list"
              /\ Len(ReturnedEntries) = Len(ObtainedDays(itin.resp))

\* C3 witness: three entries returned for start 2024-02-28, across the leap
\* day, the second of which the model had labelled day 7 of 2020-01-01.
C3_Witness ==
    /\ itin.pc = "ret"
    /\ itin.start_date = <<"2","0","2","4","-","0","2","-","2","8">>
    /\ itin.out.val.t = "list"
    /\ Len(itin.out.val.items) = 3
    /\ Len(ObtainedDays(itin.resp)) = 3
    /\ ObtainedDays(itin.resp)[2].day = 7
    /\ itin.out.val.items[2].date = <<"2","0","2","4","-","0","2","-","2","9">>
    /\ itin.out.val.items[3].date = <<"2","0","2","4","-","0","3","-","0","1">>
    /\ itin.out.val.items[3].day_of_week = "Friday"

(***************************************************************************)
(* Properties of the memoized and direct calls.                            *)
(***************************************************************************)
SameCall(a, b) == a.op = b.op /\ a.args = b.args

\* C2 as stated: of two sequential memoized calls with identical arguments
\* the second never goes to the model and returns the value of the first.
C2_SecondCallNeverInvokes ==
    \A i \in 1..Len(hist) : \A j \in 1..Len(hist) :
        (i < j /\ Memoized(hist[i].op) /\ SameCall(hist[i], hist[j]))
            => (~hist[j].invoked /\ hist[j].ret = hist[i].ret)

\* C2 amended: of two sequential memoized calls with identical arguments, if
\* the first did not fail, the second does not go to the model and returns
\* exactly the value the first returned.
C2_SecondCallReusesSuccess ==
    \A i \in 1..Len(hist) : \A j \in 1..Len(hist) :
        (i < j /\ Memoized(hist[i].op) /\ SameCall(hist[i], hist[j])
               /\ ~hist[i].failed)
            => (~hist[j].invoked /\ hist[j].ret = hist[i].ret)

\* C2 witness: insights for Rome asked twice; the first call went to the
\* model and got an object, the second returned it from the cache.
C2_Witness ==
    /\ Len(hist) >= 2
    /\ hist[1].op = "insights" /\ hist[1].args.destination = "Rome"
    /\ hist[1].invoked /\ ~hist[1].failed
    /\ SameCall(hist[1], hist[2])
    /\ ~hist[2].invoked
    /\ hist[2].ret = Return(JsonObj("A"))

\* C8 as stated: when two callers both missed the cache for one key and both
\* wrote it, the entry holds the value the first of them wrote.
C8_FirstWriterWins ==
    \A i \in 1..Len(hist) : \A j \in 1..Len(hist) :
        (/\ i < j
         /\ Memoized(hist[i].op) /\ Memoized(hist[j].op)
         /\ CacheKeyOf(hist[i].op, hist[i].args)
              = CacheKeyOf(hist[j].op, hist[j].args)
         /\ hist[i].invoked /\ ~hist[i].failed
         /\ hist[j].invoked /\ ~hist[j].failed
         /\ \A k \in 1..Len(hist) : k > j => ~hist[k].invoked)
            => cache[CacheKeyOf(hist[i].op, hist[i].args)] = hist[i].ret.val

\* A memoized call made right after a failed call with identical arguments
\* went to the model.
RetriedAfterFailure ==
    \A i \in 1..Len(hist) :
        (i > 1 /\ Memoized(hist[i].op) /\ SameCall(hist[i - 1], hist[i])
               /\ hist[i - 1].failed)
            => hist[i].invoked

\* C9: a memoized call whose model call fails leaves the cache as it was,
\* and a call with identical arguments made right after a failed one goes to
\* the model again.
C9_FailureLeavesNoEntry ==
    [][ /\ \A t \in DOMAIN thr :
              (/\ thr[t].pc = "calling"
               /\ thr'[t].pc = "idle"
               /\ hist'[Len(hist')].failed)
                  => cache' = cache
        /\ RetriedAfterFailure' ]_vars

\* C9 witness: packing failed, left no entry, and the same call then went
\* to the model again.
C9_Witness ==
    /\ Len(hist) >= 2
    /\ hist[1].op = "packing" /\ hist[1].failed
    /\ SameCall(hist[1], hist[2])
    /\ hist[2].invoked
    /\ (hist[2].failed => cache = << >>)

\* C10 as stated: a direct call whose model call fails returns {'error': msg}.
C10_FailureReturnsErrorDict ==
    \A i \in 1..Len(hist) :
        hist[i].failed =>
            /\ ~hist[i].ret.raised
            /\ hist[i].ret.val.t = "dict"
            /\ hist[i].ret.val.body = "error"

\* C10 amended: a direct call whose model call fails catches the exception
\* and returns its empty default: {} from insights, budget and packing, []
\* from the itinerary; never an {'error': ...} object.
C10_FailureReturnsEmptyDefault ==
    \A i \in 1..Len(hist) :
        hist[i].failed =>
            /\ ~hist[i].ret.raised
            /\ hist[i].ret.val =
                 (IF hist[i].op = "itinerary" THEN [t |-> "list", items |-> << >>]
                  ELSE [t |-> "dict", body |-> "{}"])

\* C10 witness: failed calls of the itinerary, the budget and the insights
\* have all returned.
C10_Witness ==
    /\ Len(hist) >= 3
    /\ \A op \in {"itinerary", "budget", "insights"} :
          \E i \in 1..Len(hist) : hist[i].op = op /\ hist[i].failed

(***************************************************************************)
(* Properties of generate_all_parallel.                                    *)
(***************************************************************************)
Returned == agg.pc = "returned"

IsEmptyValue(v) == v \in {PyNone, EmptyDict, EmptyList}

\* C1 as stated: on return, a task whose model call failed has an empty
\* field and results['errors'] holds at least one message.
C1_FailureIsReported ==
    Returned =>
        \A t \in TaskSet :
            (thr[t].pc = "done" /\ thr[t].failed) =>
                /\ IsEmptyValue(agg.results[t])
                /\ Len(agg.results["errors"]) >= 1

\* What a task that did not fail delivers: the cached value when it found
\* its key, else the object the model answered with; for the itinerary, the
\* model's day sequence, dated from the start date.
DeliveredIs(t, v) ==
    IF ~thr[t].invoked THEN v = cache[CacheKeyOf(t, thr[t].args)]
    ELSE IF t = "itinerary"
    THEN /\ v.t = "list"
         /\ Len(v.items) = Len(ObtainedDays(thr[t].resp))
         /\ \A i \in 1..Len(v.items) :
               CalDate(v.items[i].date)
                 = DaysAfter(CalDate(agg.in.start_date), i - 1)
    ELSE v = thr[t].resp.val

\* C4: on return, whichever tasks failed and in whatever order the tasks
\* completed, the field of every task that did not fail holds exactly the
\* value that task produced.
C4_SiblingsUnaffected ==
    Returned =>
        \A t \in TaskSet :
            (thr[t].pc = "done" /\ ~thr[t].failed)
                => DeliveredIs(t, agg.results[t])

\* C4 witness: the itinerary call failed before any other task finished and
\* the budget call failed too; insights and packing are delivered.
C4_Witness ==
    /\ Returned
    /\ thr["itinerary"].failed /\ thr["budget"].failed
    /\ agg.first = "itinerary"
    /\ thr["insights"].invoked /\ thr["packing"].invoked
    /\ agg.results["insights"] = JsonObj("A")
    /\ agg.results["packing"] = JsonObj("B")

\* C5: generate_all_parallel never ends by raising, and what it returns has
\* exactly the keys insights, itinerary, budget, packing and errors.
C5_ReturnsFiveKeys ==
    /\ agg.pc # "raised"
    /\ Returned =>
          DOMAIN agg.results
            = {"insights", "itinerary", "budget", "packing", "errors"}

\* C5 witness: it returned after all four model calls failed.
C5_Witness ==
    /\ Returned
    /\ \A t \in TaskSet : thr[t].invoked /\ thr[t].failed

\* C6: generate_all_parallel returns only when all four futures are
\* finished and have been collected, and once called it eventually returns.
C6_ReturnsAfterAllTasks ==
    /\ [](Returned =>
            \A t \in TaskSet : thr[t].pc = "done" /\ t \in agg.collected)
    /\ (agg.pc = "submitting") ~> Returned

\* C6 witness: a second run has returned, its four futures finished.
C6_Witness ==
    /\ Returned
    /\ agg.runs = 2
    /\ \A t \in TaskSet : thr[t].pc = "done"

\* C7: on return every task's outcome is stored under that task's own field
\* and under no other, in every completion order.
C7_StoredUnderOwnField ==
    Returned =>
        \A t \in TaskSet :
            /\ agg.stored[t] = {t}
            /\ agg.results[t] = thr[t].fut.val.value

\* C7 witness: the task submitted last finished first, and each field holds
\* its own task's outcome.
C7_Witness ==
    /\ Returned
    /\ agg.first = "packing"
    /\ agg.results["packing"] = JsonObj("B")
    /\ agg.results["budget"] = JsonObj("C")
    /\ agg.results["insights"] = JsonObj("A")
    /\ agg.results["itinerary"].t = "list"
    /\ Len(agg.results["itinerary"].items) = 2


(***************************************************************************)
(* Properties of the cache key and of the cache's lifetime.                *)
(***************************************************************************)
\* C11 as stated: a memoized call is answered from the cache, without a
\* model call, only when an earlier call with the same operation and all the
\* same arguments went to the model and stored its value.
C11_HitOnlyForIdenticalArguments ==
    \A j \in 1..Len(hist) :
        (Memoized(hist[j].op) /\ ~hist[j].invoked) =>
            \E i \in 1..Len(hist) :
                /\ i < j
                /\ SameCall(hist[i], hist[j])
                /\ hist[i].invoked /\ ~hist[i].failed


\* C12: no step removes a key from the cache, and a step adds a key only by
\* ending a model call for that key that did not fail.
C12_EntriesArePermanent ==
    [][ /\ \A k \in DOMAIN cache : k \in DOMAIN cache'
        /\ \A k \in (DOMAIN cache') \ (DOMAIN cache) :
              \E t \in DOMAIN thr :
                  /\ thr[t].pc = "calling"
                  /\ Memoized(thr[t].op)
                  /\ CacheKeyOf(thr[t].op, thr[t].args) = k
                  /\ thr'[t].pc = "idle"
                  /\ hist'[Len(hist')].caller = t
                  /\ hist'[Len(hist')].invoked
                  /\ ~hist'[Len(hist')].failed ]_vars

\* C12 witness: after a failed call and two successful ones the cache holds
\* the insights entry for Rome and the packing entry, both still present.
C12_Witness ==
    /\ Len(hist) = 3
    /\ hist[1].failed
    /\ hist[2].op = "insights" /\ hist[2].invoked /\ ~hist[2].failed
    /\ hist[3].op = "packing" /\ hist[3].invoked /\ ~hist[3].failed
    /\ DOMAIN cache = { CacheKeyOf(hist[2].op, hist[2].args),
                        CacheKeyOf(hist[3].op, hist[3].args) }


(***************************************************************************)
(* Properties of the model calls and the dispatch of one run.              *)
(***************************************************************************)
InRun == agg.pc \in {"submitting", "collecting", "returned"}

RECURSIVE SumCalls(_)
SumCalls(S) ==
    IF S = {} THEN 0
    ELSE LET t == CHOOSE x \in S : TRUE
         IN  agg.calls[t] + SumCalls(S \ {t})

\* C13: in one run every task issues at most one model call, so at most four
\* in all, and a task whose call failed is finished with that one call.
C13_SingleAttempt ==
    InRun =>
        /\ \A t \in TaskSet : agg.calls[t] <= 1
        /\ SumCalls(TaskSet) <= 4
        /\ \A t \in TaskSet :
              (thr[t].pc = "calling" \/ (thr[t].pc = "done" /\ thr[t].invoked))
                  => agg.calls[t] = 1

\* C13 witness: a run returned in which the insights and budget calls
\* failed and every task had issued exactly one call.
C13_Witness ==
    /\ Returned
    /\ thr["insights"].failed /\ thr["budget"].failed
    /\ ~thr["packing"].failed
    /\ \A t \in TaskSet : agg.calls[t] = 1


\* Task t, queued, can start now.
CanStart(t) == ENABLED (WorkerCached(t) \/ WorkerCallsModel(t))

\* Task t, its model call in flight, can finish now.
CanFinish(t) == ENABLED (\E resp \in TaskResponses(t) : WorkerAnswered(t, resp))

\* C14: the loop over finished futures begins only after all four tasks were
\* submitted, and no task waits for another: whatever the other three are
\* doing, a queued task can start and a task whose model call is in flight
\* can finish.
C14_TasksRunIndependently ==
    InRun =>
        /\ agg.pc \in {"collecting", "returned"} =>
              /\ agg.submitted = Len(Tasks)
              /\ \A t \in TaskSet : thr[t].pc # "idle"
        /\ agg.collected # {} => agg.submitted = Len(Tasks)
        /\ \A t \in TaskSet : thr[t].pc = "queued" => CanStart(t)
        /\ \A t \in TaskSet :
              (thr[t].pc = "calling" /\ agg.pc # "returned") => CanFinish(t)

\* C14 witness: all four model calls are in flight at once, nothing has been
\* collected, and each of the four can finish while the other three are
\* still pending.
C14_Witness ==
    /\ agg.pc = "collecting"
    /\ agg.collected = {}
    /\ \A t \in TaskSet : thr[t].pc = "calling" /\ CanFinish(t)


(***************************************************************************)
(* Properties of the form's validation.                                    *)
(***************************************************************************)
\* A calendar date as one number, ordered as the dates are.
DateNumber(c) == c.y * 10000 + c.m * 100 + c.d

\* This step begins a run of generate_all_parallel.
Invokes == agg.pc \in {"idle", "returned"} /\ agg'.pc = "submitting"

\* This step is a submission of the form.
Submits == form' # form /\ form'.pc \in {"rejected", "generating"}

\* C15: a step begins a run of generate_all_parallel only as the submission
\* of a form whose origin and destination are not empty and whose end date
\* is after its start date, and the run's days argument is at least 1 and is
\* the number of days from the start date to the end date; a submission
\* whose end date is not after its start date begins no run.
C15_InvokedOnlyWhenValid ==
    [][ /\ Invokes =>
              /\ form'.pc = "generating"
              /\ form'.f.origin # "" /\ form'.f.destination # ""
              /\ agg'.in.origin = form'.f.origin
              /\ agg'.in.destination = form'.f.destination
              /\ DateNumber(form'.f.end_date) > DateNumber(form'.f.start_date)
              /\ agg'.in.days >= 1
              /\ DaysAfter(form'.f.start_date, agg'.in.days) = form'.f.end_date
        /\ (Submits /\ DateNumber(form'.f.end_date)
                           <= DateNumber(form'.f.start_date))
              => (agg' = agg /\ thr' = thr /\ form'.pc = "rejected")
      ]_vars

\* C15 witness: the form from 27 February to 1 March 2024 was submitted and
\* the run it began, now collecting, has days = 3 and start date 2024-02-27.
C15_Witness ==
    /\ form.pc = "generating"
    /\ form.f.start_date = Date(2024, 2, 27)
    /\ form.f.end_date = Date(2024, 3, 1)
    /\ agg.pc = "collecting"
    /\ agg.in.days = 3
    /\ agg.in.start_date = <<"2","0","2","4","-","0","2","-","2","7">>


(***************************************************************************)
(* What a run returns for the tasks whose model call failed.               *)
(***************************************************************************)
IsErrorObject(v) == v.t = "dict" /\ "error" \in DOMAIN v

\* C16: on every return, results['errors'] is empty, no field is None or an
\* {'error': ...} object, and the field of a task whose model call failed is
\* [] for the itinerary and {} for the other three.
C16_FailuresLeaveEmptyValues ==
    Returned =>
        /\ agg.results["errors"] = << >>
        /\ \A t \in TaskSet :
              /\ agg.results[t] # PyNone
              /\ ~IsErrorObject(agg.results[t])
              /\ (thr[t].pc = "done" /\ thr[t].failed) =>
                    agg.results[t] = IF t = "itinerary"
                                     THEN [t |-> "list", items |-> << >>]
                                     ELSE [t |-> "dict", body |-> "{}"]

\* C16 witness: a run returned in which the packing task finished first, the
\* insights and itinerary calls failed and the other two did not.
C16_Witness ==
    /\ Returned
    /\ agg.first = "packing"
    /\ thr["insights"].failed /\ thr["itinerary"].failed
    /\ thr["budget"].invoked /\ ~thr["budget"].failed
    /\ agg.results["insights"].t = "dict"
    /\ agg.results["itinerary"].t = "list"
    /\ agg.results["errors"] = << >>


(***************************************************************************)
(* What create_daily_itinerary returns when normalization cannot finish.   *)
(***************************************************************************)
\* Entry e is the model's entry m with the date and weekday of calendar day c.
NormalizedTo(e, m, c) ==
    /\ m.t = "dict" /\ e.t = "dict"
    /\ e.day = m.day
    /\ IsCalDateText(e.date) /\ CalDate(e.date) = c
    /\ e.day_of_week = ZellerName(c)

\* The loop cannot finish: the response has an entry and the start date is
\* no date, or some entry is no object or falls after the last calendar day.
NormalizationFails ==
    /\ Len(ObtainedDays(itin.resp)) >= 1
    /\ \/ ~IsCalDateText(itin.start_date)
       \/ \E i \in 1..Len(ObtainedDays(itin.resp)) :
             \/ ObtainedDays(itin.resp)[i].t # "dict"
             \/ DaysAfter(CalDate(itin.start_date), i - 1).y > 9999

\* C17 as stated: create_daily_itinerary returns either the empty list or the
\* model's whole day sequence with every entry normalized; it returns the
\* empty list when normalization fails at any entry, when the start date is
\* no date, and when the response has neither key.
C17_AllOrNothing ==
    itin.pc = "ret" =>
        /\ ~itin.out.raised
        /\ \/ itin.out.val = EmptyList
           \/ /\ itin.out.val.t = "list"
              /\ Len(itin.out.val.items) = Len(ObtainedDays(itin.resp))
              /\ \A i \in 1..Len(itin.out.val.items) :
                    NormalizedTo(itin.out.val.items[i],
                                 ObtainedDays(itin.resp)[i],
                                 DaysAfter(CalDate(itin.start_date), i - 1))
        /\ (\/ NormalizationFails
            \/ ~IsCalDateText(itin.start_date)
            \/ itin.resp.kind # "text" \/ ~itin.resp.json
            \/ itin.resp.val.keys \cap {"itinerary", "days"} = {})
              => itin.out.val = EmptyList

====
